---- MODULE Spec2Model ----
(***************************************************************************)
(* Model of the DeepSeek chat plugin's streaming completion pipeline:      *)
(* ApiClient::send_streaming_request (src/src/api/client.rs), the same     *)
(* loop in DeepSeekPlugin::send_streaming_request (src/src/lib.rs), and    *)
(* DeepSeekPlugin::handle_message, which spawns it; the plugin's life     *)
(* cycle (on_mount, update_ui, on_connect, on_dispose), its configuration  *)
(* file (src/src/config.rs) and the messages of the request built from     *)
(* the history (src/src/history/processor.rs).                             *)
(*                                                                         *)
(* Text is a sequence of units.  A unit is a short run of bytes of the     *)
(* response body; a transport chunk boundary may fall between any two      *)
(* units.  The units are chosen so that there is a boundary inside the     *)
(* "data: " prefix, inside every payload and inside the "\n\n" separator.  *)
(***************************************************************************)
EXTENDS Integers, Sequences, FiniteSets, TLC

-----------------------------------------------------------------------------
(* Units of text                                                           *)

NL == "\n"
Prefix == <<"da", "ta: ">>         \* the six bytes  data:<space>
Sep == <<NL, NL>>                  \* the event separator "\n\n"
DoneText == <<"[DO", "NE]">>       \* the sentinel payload [DONE]
Open == "{[" \* the bytes  {"choices":[
Close == "]}"                      \* the bytes  ]}
Comma == ","
BadByte == "xFF"                   \* a byte that is not valid UTF-8
Replacement == "U+FFFD"       \* what lossy decoding puts in its place
None == "None"                     \* Option::None

\* One choice of a completion chunk, as one unit of JSON text.
\*   "<He>"   {"delta":{"content":"He"}}
\*   "<llo>"  {"delta":{"content":"llo"}}
\*   "<>"     {"delta":{"content":""}}
\*   "<->"    {"delta":{}}                  (no content field)
ChoiceUnits == {"<He>", "<llo>", "<>", "<->"}

\* serde: Delta.content of a choice unit (Option<String>).
DeltaContent(u) ==
  CASE u = "<He>" -> "He"
    [] u = "<llo>" -> "llo"
    [] u = "<>" -> ""
    [] OTHER -> None

-----------------------------------------------------------------------------
(* Pure text functions                                                     *)

Drop(t, n) == SubSeq(t, n + 1, Len(t))
Take(t, n) == SubSeq(t, 1, n)

\* String::from_utf8_lossy: invalid bytes become U+FFFD, the rest is kept.
Utf8Lossy(chunk) ==
  [i \in 1..Len(chunk) |-> IF chunk[i] = BadByte THEN Replacement ELSE chunk[i]]

\* Index of the first "\n\n" in t at or after i, 0 when there is none.
RECURSIVE FindSep(_, _)
FindSep(t, i) ==
  IF i + 1 > Len(t) THEN 0
  ELSE IF t[i] = NL /\ t[i + 1] = NL THEN i
  ELSE FindSep(t, i + 1)

\* str::split("\n\n"): the segments between non-overlapping separators, from
\* the left, empty segments included; a text without separator is one segment.
RECURSIVE Split(_)
Split(t) ==
  LET i == FindSep(t, 1) IN
  IF i = 0 THEN <<t>>
  ELSE <<Take(t, i - 1)>> \o Split(Drop(t, i + 1))

\* str::starts_with("data: ")
StartsWithPrefix(line) ==
  Len(line) >= Len(Prefix) /\ Take(line, Len(Prefix)) = Prefix

\* &line[6..]
StripPrefix(line) == Drop(line, Len(Prefix))

\* JSON whitespace around the value is accepted by serde_json::from_str.
RECURSIVE TrimStart(_)
TrimStart(t) == IF t # <<>> /\ t[1] = NL THEN TrimStart(Tail(t)) ELSE t

RECURSIVE TrimEnd(_)
TrimEnd(t) ==
  IF t # <<>> /\ t[Len(t)] = NL THEN TrimEnd(Take(t, Len(t) - 1)) ELSE t

\* The items of a JSON array body: choice (, choice)*.  Returns the sequence
\* of Delta.content values, or <<"error">> when the text is not such a list.
RECURSIVE ParseItems(_)
ParseItems(t) ==
  IF t = <<>> THEN <<"error">>
  ELSE IF t[1] \notin ChoiceUnits THEN <<"error">>
  ELSE IF Len(t) = 1 THEN <<DeltaContent(t[1])>>
  ELSE IF t[2] # Comma THEN <<"error">>
  ELSE LET rest == ParseItems(Drop(t, 2)) IN
       IF rest = <<"error">> THEN rest ELSE <<DeltaContent(t[1])>> \o rest

\* serde_json::from_str::<ChatCompletionChunk>(data):
\* [ok |-> TRUE, choices |-> contents] or [ok |-> FALSE, choices |-> <<>>].
ParseChunkData(data) ==
  LET t == TrimEnd(TrimStart(data))
      bad == [ok |-> FALSE, choices |-> <<>>]
  IN IF Len(t) < 2 \/ t[1] # Open \/ t[Len(t)] # Close THEN bad
     ELSE LET body == SubSeq(t, 2, Len(t) - 1) IN
          IF body = <<>> THEN [ok |-> TRUE, choices |-> <<>>]
          ELSE LET items == ParseItems(body) IN
               IF items = <<"error">> THEN bad
               ELSE [ok |-> TRUE, choices |-> items]

-----------------------------------------------------------------------------
(* Inputs                                                                  *)

\* The JSON unit of a choice whose Delta.content is c.
ChoiceUnit(c) ==
  CASE c = "He" -> "<He>"
    [] c = "llo" -> "<llo>"
    [] c = "" -> "<>"
    [] OTHER -> "<->"

\* The text of a choices array: the units separated by commas.
RECURSIVE JoinChoices(_)
JoinChoices(cs) ==
  IF cs = <<>> THEN <<>>
  ELSE IF Len(cs) = 1 THEN <<ChoiceUnit(cs[1])>>
  ELSE <<ChoiceUnit(cs[1]), Comma>> \o JoinChoices(Tail(cs))

\* What the server sends, event by event.  contents are the Delta.content
\* values of a completion chunk (None: no content field); raw is the text of
\* an event that is no completion chunk.
Delta(cs) == [kind |-> "delta", contents |-> cs, raw |-> <<>>]
Sentinel == [kind |-> "done", contents |-> <<>>, raw |-> <<>>]
Malformed(t) == [kind |-> "malformed", contents |-> <<>>, raw |-> t]
Comment(t) == [kind |-> "comment", contents |-> <<>>, raw |-> t]

\* An event of two lines: the comment line t, then the data: line of a
\* completion chunk with the contents cs.
Commented(t, cs) == [kind |-> "commented", contents |-> cs, raw |-> t]

\* The text of one event, without the blank line that ends it.
Render(e) ==
  CASE e.kind = "delta" -> Prefix \o <<Open>> \o JoinChoices(e.contents) \o <<Close>>
    [] e.kind = "done" -> Prefix \o DoneText
    [] e.kind = "malformed" -> Prefix \o e.raw
    [] e.kind = "commented" ->
         e.raw \o <<NL>> \o Prefix \o <<Open>> \o JoinChoices(e.contents) \o <<Close>>
    [] OTHER -> e.raw

\* The response bodies the server may send.
Bodies ==
  { <<Delta(<<"He">>), Delta(<<"llo">>), Sentinel>>,
    <<Delta(<<"He">>), Malformed(<<Open, "<He>">>), Delta(<<"llo">>)>>,
    <<Delta(<<"He", "llo">>), Sentinel, Delta(<<"llo">>), Delta(<<"He">>)>>,
    <<Delta(<<None>>), Delta(<<>>)>>,
    <<Sentinel>>,
    <<Malformed(<<Open, BadByte, Close>>), Comment(<<": ", "ping">>), Delta(<<"">>)>>,
    <<>> }

\* The byte stream of a body: every event followed by a blank line.
RECURSIVE Encode(_)
Encode(evs) ==
  IF evs = <<>> THEN <<>> ELSE Render(Head(evs)) \o Sep \o Encode(Tail(evs))

\* The offsets of Encode(evs) at which an event (with its blank line) ends.
RECURSIVE Boundaries(_)
Boundaries(evs) ==
  IF evs = <<>> THEN {}
  ELSE {Len(Encode(evs))} \cup Boundaries(Take(evs, Len(evs) - 1))

MaxInitTasks == 2   \* initialize tasks spawned and not yet run, at most

Keys == {"", "  ", "sk-1"}                  \* api_key values; two are blank
Statuses == {200, 401, 500}
ErrorBodies == {"unauthorized", ""}
StreamIds == {"stream_001", "stream_002"}
AllSessions == {"s1", "s2"}
Solo == {"s1"}

\* str::trim().is_empty()
IsBlank(k) == k \in {"", "  "}

\* StatusCode::is_success
IsSuccess(status) == status >= 200 /\ status <= 299

-----------------------------------------------------------------------------
(* The configuration file                                                  *)

DefaultUrl == "https://api.deepseek.com/v1/chat/completions"
AltUrl == "http://localhost:8080/v1/chat/completions"

\* config.toml as load_config sees it: loads is false when the file is
\* missing, unreadable or not valid TOML; user is false when it has no
\* [user] section; a field of the section is None when it is absent.
ConfigFile(loads, user, k, u) ==
  [loads |-> loads, user |-> user, api_key |-> k, api_url |-> u]
NoFile == ConfigFile(FALSE, FALSE, None, None)
NoUserSection == ConfigFile(TRUE, FALSE, None, None)
UserSection(k, u) == ConfigFile(TRUE, TRUE, k, u)

\* The files a session-level run starts from: no file, or a stored key.
Files == {NoFile, UserSection("  ", None), UserSection("sk-1", None)}

\* The files a configuration run starts from: every combination of absent
\* file, absent section and absent field.
AllFiles ==
  {NoFile, NoUserSection}
    \cup {UserSection(k, u) : k \in Keys \cup {None},
                               u \in {None, "", DefaultUrl, AltUrl}}

\* impl Default for UserConfig
DefaultUserConfig == [api_key |-> None, api_url |-> DefaultUrl]

\* ConfigManager::load_user_config: the [user] section as stored, or the
\* default when the file does not load or has no such section.
LoadUserConfig(f) ==
  IF f.loads /\ f.user THEN [api_key |-> f.api_key, api_url |-> f.api_url]
  ELSE DefaultUserConfig

\* DeepSeekPlugin::load_user_config: only the fields that are Some replace
\* the plugin's.
ApplyConfig(cur, cfg) ==
  [api_key |-> IF cfg.api_key = None THEN cur.api_key ELSE cfg.api_key,
   api_url |-> IF cfg.api_url = None THEN cur.api_url ELSE cfg.api_url]

\* The field save_user_config stores for a value: None when it is blank.
Stored(v) == IF IsBlank(v) THEN None ELSE v

\* The two values written to each other's field.
SaveUserConfig_Swapped(f, k, u) == UserSection(Stored(u), Stored(k))

\* ConfigManager::save_user_config: the file after a successful write; the
\* other sections of the file are kept and not modelled.
SaveUserConfig(f, k, u) == UserSection(Stored(k), Stored(u))

-----------------------------------------------------------------------------
(* The messages of the request                                             *)

MaxHistory == 2     \* entries of a history, at most

HistoryRoles == {"user", "plugin", "system", "tool"}
HistoryStatuses == {"completed", "streaming"}
Contents == {"hi", " hi ", "  "}

\* HistoryMessage: the fields extract_completed_messages reads.
HistoryEntries == [role : HistoryRoles, content : Contents, status : HistoryStatuses]

\* Option<Vec<HistoryMessage>>
NoHistory == [some |-> FALSE, entries |-> <<>>]
SomeHistory(h) == [some |-> TRUE, entries |-> h]
Histories ==
  {NoHistory}
    \cup {SomeHistory(h) : h \in UNION {[1..n -> HistoryEntries] : n \in 0..MaxHistory}}

\* Message::new(role, content)
Message(role, content) == [role |-> role, content |-> content]

\* The role of a plugin entry left as it is.
AiRole_PluginKept(role) ==
  CASE role = "user" -> "user"
    [] role = "plugin" -> "plugin"
    [] role = "system" -> "system"
    [] OTHER -> "user"

\* match msg.role.as_str(): the role sent to the API for a history role.
AiRole(role) ==
  CASE role = "user" -> "user"
    [] role = "plugin" -> "assistant"
    [] role = "system" -> "system"
    [] OTHER -> "user"

\* extract_completed_messages: the entries with status "completed", then,
\* in order, one Message for each of them whose content is not blank.
RECURSIVE ExtractFrom(_)
ExtractFrom(h) ==
  IF h = <<>> THEN <<>>
  ELSE IF IsBlank(Head(h).content) THEN ExtractFrom(Tail(h))
  ELSE <<Message(AiRole(Head(h).role), Head(h).content)>> \o ExtractFrom(Tail(h))

ExtractCompletedMessages(h) ==
  ExtractFrom(SelectSeq(h, LAMBDA m : m.status = "completed"))

\* HistoryMessage with the created_at field that
\* extract_recent_completed_messages sorts on; two entries may carry the
\* same created_at.
RecentRoles == {"plugin", "tool"}
DatedEntries ==
  [role : RecentRoles, content : Contents, status : HistoryStatuses,
   created_at : 1..MaxHistory]
DatedHistories ==
  {SomeHistory(h) : h \in UNION {[1..n -> DatedEntries] : n \in 0..MaxHistory}}

\* One step of the stable sort: m, which comes after the entries of sorted
\* in the history, goes behind every entry that is not older than it.
RECURSIVE InsertLatestFirst(_, _)
InsertLatestFirst(sorted, m) ==
  IF sorted = <<>> THEN <<m>>
  ELSE IF Head(sorted).created_at >= m.created_at
  THEN <<Head(sorted)>> \o InsertLatestFirst(Tail(sorted), m)
  ELSE <<m>> \o sorted

\* sort_by(|a, b| b.created_at.cmp(&a.created_at)): latest first, entries
\* of equal created_at in history order.
RECURSIVE SortLatestFirst(_)
SortLatestFirst(h) ==
  IF h = <<>> THEN <<>>
  ELSE InsertLatestFirst(SortLatestFirst(SubSeq(h, 1, Len(h) - 1)), h[Len(h)])

\* into_iter().take(limit): the first limit entries, or all of them.
TakeUpTo(h, limit) == SubSeq(h, 1, IF limit < Len(h) THEN limit ELSE Len(h))

\* reverse()
Reverse(h) == [i \in 1..Len(h) |-> h[Len(h) + 1 - i]]

\* extract_recent_completed_messages: the entries with status "completed",
\* sorted latest first, the first limit of them, reversed, then one Message
\* for each of these whose content is not blank.
ExtractRecentCompletedMessages(h, limit) ==
  ExtractFrom(Reverse(TakeUpTo(
    SortLatestFirst(SelectSeq(h, LAMBDA m : m.status = "completed")), limit)))

\* The current user turn put first.
BuildMessages_UserFirst(hist, msg) ==
  <<Message("user", msg)>>
    \o (IF hist.some THEN ExtractCompletedMessages(hist.entries) ELSE <<>>)

\* The messages of the request body: the extracted history when there is
\* one, then the current user message.
BuildMessages(hist, msg) ==
  (IF hist.some THEN ExtractCompletedMessages(hist.entries) ELSE <<>>)
    \o <<Message("user", msg)>>

-----------------------------------------------------------------------------
(* State                                                                   *)

VARIABLES
  api_key,      \* DeepSeekPlugin.api_key
  runtime,      \* DeepSeekPlugin.runtime is Some
  client,       \* the shared Option<reqwest::Client> is Some
  lock,         \* the task holding the Mutex around the shared handle
  writing,      \* a store into the shared handle has begun and not finished
  mounted,      \* on_mount has run
  initTasks,    \* initialize tasks spawned and not yet run
  reply,        \* the last handle_message call: key and runtime seen, result
  spawned,      \* number of streaming tasks spawned by handle_message
  api_url,      \* DeepSeekPlugin.api_url
  file,         \* config.toml: whether it can be loaded, and its [user] section
  saved,        \* the last save_user_config call: values given, file written
  connect,      \* the last on_connect call: key and url seen, result
  dispose,      \* the last on_dispose call: owners of the runtime seen, outcome
  shutdown,     \* the runtime has been shut down
  history,      \* plugin_ctx.get_history() of the request being built
  message,      \* the user message of the request being built
  messages,     \* the "messages" list of the request body built from them
  recent,       \* a call of extract_recent_completed_messages: limit, result
  pc,           \* per session: position in send_streaming_request
  key,          \* per session: api_key of the clone it runs on
  origin,       \* per session: "plugin" when the task owns a clone of the plugin
  snap,         \* per session: the local client, cloned from the handle
  response,     \* per session: status and error body of the response
  events,       \* per session: the events of the body the server sends
  wire,         \* per session: bytes of the body not yet read
  aligned,      \* per session: every chunk read so far ended on an event end
  lines,        \* per session: segments of the current chunk still to visit
  choices,      \* per session: choices of the current event still to visit
  has_content,  \* per session: the local has_content
  stream_id,    \* per session: the local stream_id
  result,       \* per session: what send_streaming_request returned
  exit,         \* per session: the return statement taken
  http,         \* per session: number of POST requests issued
  url,          \* per session: api_url of the clone it runs on
  holds,        \* per session: the ApiClient of the clone it runs on, if any
  posted,       \* per session: the key and the url of the POST request
  api_client,   \* DeepSeekPlugin.api_client (plugin.rs): its key and url
  old,          \* the handles of the ApiClients that were replaced
  sink          \* the calls the sink received, in order

host_vars == <<api_url, file, saved, connect, dispose, shutdown>>
client_vars == <<api_client, old>>
request_vars == <<history, message, messages, recent>>
plugin_vars ==
  <<api_key, runtime, client, lock, writing, mounted, initTasks, reply, spawned,
    host_vars, request_vars, client_vars>>
session_vars ==
  <<pc, key, origin, snap, response, events, wire, aligned, lines, choices, has_content, stream_id,
    result, exit, http, url, holds, posted>>
vars == <<plugin_vars, request_vars,
                 session_vars, sink>>

NoResult == [ok |-> FALSE, err |-> "running", detail |-> ""]

\* No call of extract_recent_completed_messages.
NoRecent == [called |-> FALSE, limit |-> 0, out |-> <<>>]

\* api_client: None, of the plugin and of a clone of it; no POST yet.
NoApiClient == [some |-> FALSE, key |-> "", url |-> ""]
NoClient == [some |-> FALSE, key |-> "", url |-> "", handle |-> 0, ready |-> FALSE]
NoPost == [sent |-> FALSE, key |-> "", url |-> ""]
OkResult == [ok |-> TRUE, err |-> "", detail |-> ""]
Err(e, d) == [ok |-> FALSE, err |-> e, detail |-> d]

NoReply == [key |-> None, runtime |-> FALSE, ret |-> "none", task |-> None]
NoResponse == [status |-> 0, body |-> "", readable |-> TRUE]

NoSave == [key |-> None, url |-> None, written |-> FALSE]
NoConnect == [key |-> None, url |-> None, ret |-> "none"]
NoDispose == [runtime |-> FALSE, tasks |-> {}, outcome |-> "none", ret |-> "none"]

NoContentMsg == "no content received"       \* the fixed message of line 167

StartCall(s, id, ret) ==
  [op |-> "start", s |-> s, id |-> id, text |-> "", final |-> FALSE,
   success |-> FALSE, error |-> None, ret |-> ret]
ChunkCall(s, id, text, ret) ==
  [op |-> "chunk", s |-> s, id |-> id, text |-> text, final |-> FALSE,
   success |-> FALSE, error |-> None, ret |-> ret]
EndCall(s, id, success, error, ret) ==
  [op |-> "end", s |-> s, id |-> id, text |-> "", final |-> FALSE,
   success |-> success, error |-> error, ret |-> ret]

InitWith(F, H, M, R) ==
  /\ recent \in R
  /\ api_key = ""
  /\ api_url = DefaultUrl
  /\ file \in F
  /\ saved = NoSave
  /\ connect = NoConnect
  /\ dispose = NoDispose
  /\ shutdown = FALSE
  /\ history \in H
  /\ message \in M
  /\ messages = <<>>
  /\ runtime = FALSE
  /\ client = FALSE
  /\ lock = None
  /\ writing = FALSE
  /\ mounted = FALSE
  /\ initTasks = 0
  /\ reply = NoReply
  /\ spawned = 0
  /\ pc = [s \in AllSessions |-> "idle"]
  /\ key = [s \in AllSessions |-> ""]
  /\ origin = [s \in AllSessions |-> None]
  /\ snap = [s \in AllSessions |-> "unset"]
  /\ response = [s \in AllSessions |-> NoResponse]
  /\ events = [s \in AllSessions |-> <<>>]
  /\ wire = [s \in AllSessions |-> <<>>]
  /\ aligned = [s \in AllSessions |-> TRUE]
  /\ lines = [s \in AllSessions |-> <<>>]
  /\ choices = [s \in AllSessions |-> <<>>]
  /\ has_content = [s \in AllSessions |-> FALSE]
  /\ stream_id = [s \in AllSessions |-> None]
  /\ result = [s \in AllSessions |-> NoResult]
  /\ exit = [s \in AllSessions |-> "none"]
  /\ http = [s \in AllSessions |-> 0]
  /\ url = [s \in AllSessions |-> None]
  /\ holds = [s \in AllSessions |-> NoClient]
  /\ posted = [s \in AllSessions |-> NoPost]
  /\ api_client = NoApiClient
  /\ old = <<>>
  /\ sink = <<>>

\* DeepSeekPlugin::new() and a request to build, with no call of
\* extract_recent_completed_messages.
InitFrom(F, H, M) == InitWith(F, H, M, {NoRecent})

\* DeepSeekPlugin::new(), with any of the config files of Files on disk.
Init == InitFrom(Files, {NoHistory}, {""})

-----------------------------------------------------------------------------
(* The plugin                                                              *)

\* save_user_config, then the task that initializes the HTTP client is
\* spawned when there is a runtime: the new values of file, saved, initTasks.
UpdateConfig(k, u, rt, written) ==
  /\ file' = IF written THEN SaveUserConfig(file, k, u) ELSE file
  /\ saved' = [key |-> k, url |-> u, written |-> written]
  /\ initTasks' = IF rt THEN initTasks + 1 ELSE initTasks

\* on_mount: load_user_config (a stored value replaces the field, a missing
\* one keeps it), then Runtime::new(); on success update_config saves the
\* configuration and spawns the task that initializes the HTTP client.
\* written: the write of config.toml succeeded.
OnMount(rtOk, written) ==
  LET cfg == ApplyConfig([api_key |-> api_key, api_url |-> api_url],
                         LoadUserConfig(file)) IN
  /\ ~mounted
  /\ mounted' = TRUE
  /\ api_key' = cfg.api_key
  /\ api_url' = cfg.api_url
  /\ runtime' = (runtime \/ rtOk)
  /\ IF rtOk
     THEN UpdateConfig(cfg.api_key, cfg.api_url, TRUE, written)
     ELSE written /\ UNCHANGED <<file, saved, initTasks>>
  /\ UNCHANGED <<client, lock, writing, reply, spawned, connect, dispose, shutdown,
                 request_vars,
                 session_vars, sink,
                 client_vars>>

\* Every acquisition of the Mutex taken whether or not it is held.
CanLock_Always(holder) == TRUE

\* Mutex::lock().await completes only while no task holds the Mutex.
CanLock(holder) == holder = None

\* What a read of the shared handle yields: a store that has begun and not
\* finished leaves a value that is neither None nor Some(client).
Observe(c, w) == IF w THEN "partial" ELSE IF c THEN "some" ELSE "none"

\* The task spawned by update_config / ApiClient::initialize, first half:
\* let mut guard = self.client.lock().await; the store *guard = Some(client)
\* begins.
InitializeLock ==
  /\ initTasks > 0
  /\ CanLock(lock)
  /\ lock' = "init"
  /\ writing' = TRUE
  /\ UNCHANGED <<api_key, runtime, client, mounted, initTasks, reply, spawned,
                 host_vars, request_vars, request_vars,
                 session_vars, sink,
                 client_vars>>

\* Second half: the store completes, the handle is Some(client), and the
\* guard is dropped at the end of the function.
Initialize ==
  /\ lock = "init"
  /\ initTasks' = initTasks - 1
  /\ client' = TRUE
  /\ writing' = FALSE
  /\ lock' = None
  /\ UNCHANGED <<api_key, runtime, mounted, reply, spawned, host_vars, request_vars,
                 session_vars, sink,
                 client_vars>>

\* handle_message without the guard on the key.
HandleMessageReply_NoKeyCheck(k, rt) ==
  IF rt THEN "Ack" ELSE "ErrRuntimeNotInitialized"

\* handle_message without the guard on the runtime.
HandleMessageReply_NoRuntimeCheck(k, rt) ==
  IF IsBlank(k) THEN "ErrKeyNotSet" ELSE "Ack"

\* handle_message with the guard on the runtime before the guard on the key.
HandleMessageReply_RuntimeFirst(k, rt) ==
  IF ~rt THEN "ErrRuntimeNotInitialized"
  ELSE IF IsBlank(k) THEN "ErrKeyNotSet"
  ELSE "Ack"

\* What handle_message returns for the plugin's key and runtime.
HandleMessageReply(k, rt) ==
  IF IsBlank(k) THEN "ErrKeyNotSet"
  ELSE IF rt THEN "Ack"
  ELSE "ErrRuntimeNotInitialized"

\* An initialize task has completed on some ApiClient of the plugin.
Initialized == client \/ \E g \in 1..Len(old) : old[g].client

\* self.clone() in handle_message: the clone of the ApiClient shares the
\* handle of the plugin's ApiClient, the one made by the latest update_config.
\* ready tells whether an initialize task had completed when the clone was
\* made.
ClonedClient ==
  IF ~api_client.some THEN NoClient
  ELSE [some |-> TRUE, key |-> api_client.key, url |-> api_client.url,
        handle |-> Len(old) + 1, ready |-> Initialized]

\* handle_message: reject a blank key, then spawn one task running
\* send_streaming_request on a clone of the plugin, or reject a missing
\* runtime.  S is the set of task slots; reply records the call.
HandleMessage(S) ==
  LET r == HandleMessageReply(api_key, runtime) IN
  /\ IF r = "Ack"
     THEN \E s \in S :
            /\ pc[s] = "idle"
            /\ pc' = [pc EXCEPT ![s] = "start"]
            /\ key' = [key EXCEPT ![s] = api_key]
            /\ url' = [url EXCEPT ![s] = api_url]
            /\ holds' = [holds EXCEPT ![s] = ClonedClient]
            /\ origin' = [origin EXCEPT ![s] = "plugin"]
            /\ spawned' = spawned + 1
            /\ reply' = [key |-> api_key, runtime |-> runtime, ret |-> r, task |-> s]
     ELSE /\ reply' = [key |-> api_key, runtime |-> runtime, ret |-> r, task |-> None]
          /\ UNCHANGED <<pc, key, url, holds, origin, spawned>>
  /\ UNCHANGED <<api_key, runtime, client, lock, writing, mounted, initTasks,
                 host_vars, request_vars, snap, response, events, wire, aligned, lines, choices, has_content, stream_id, result,
                 exit, http, sink,
                 client_vars, posted>>

\* update_ui: the text field of the key changed to k, then update_config.
EditKey(k, written) ==
  /\ mounted
  /\ k # api_key
  /\ runtime => initTasks < MaxInitTasks
  /\ api_key' = k
  /\ UpdateConfig(k, api_url, runtime, written)
  /\ UNCHANGED <<runtime, client, lock, writing, mounted, reply, spawned, api_url,
                 connect, dispose, shutdown, request_vars,
                 session_vars, sink,
                 client_vars>>

\* update_ui: the text field of the url changed to u, then update_config.
EditUrl(u, written) ==
  /\ mounted
  /\ u # api_url
  /\ runtime => initTasks < MaxInitTasks
  /\ api_url' = u
  /\ UpdateConfig(api_key, u, runtime, written)
  /\ UNCHANGED <<api_key, runtime, client, lock, writing, mounted, reply, spawned,
                 connect, dispose, shutdown, request_vars,
                 session_vars, sink,
                 client_vars>>

\* on_connect accepting every configuration.
ConnectReply_AcceptAll(k, u) == "Ok"

\* What on_connect returns for the plugin's key and url.
ConnectReply(k, u) ==
  IF IsBlank(k) \/ IsBlank(u) THEN "ErrNotConfigured" ELSE "Ok"

\* on_connect: refuse a blank key or a blank url.
OnConnect ==
  /\ mounted
  /\ connect' = [key |-> api_key, url |-> api_url, ret |-> ConnectReply(api_key, api_url)]
  /\ UNCHANGED <<api_key, runtime, client, lock, writing, mounted, initTasks, reply,
                 spawned, api_url, file, saved, dispose, shutdown, request_vars,
                 session_vars, sink,
                 client_vars>>

\* The streaming tasks spawned by handle_message that have not returned:
\* each owns an Arc of a clone of the plugin, and with it a clone of the
\* Arc<Runtime>.
LiveTasks == {s \in AllSessions : origin[s] = "plugin" /\ pc[s] \notin {"idle", "done"}}

\* The strong count of the Arc<Runtime>: the plugin's field and one per task.
StrongCount == (IF runtime THEN 1 ELSE 0) + Cardinality(LiveTasks)

\* Arc::try_unwrap succeeds when the Arc handed to it is the only one.
TryUnwrap(count) == count = 1

\* on_dispose: self.runtime.clone() adds one owner to the runtime, and
\* Arc::try_unwrap of that clone decides between shutdown_timeout and the
\* warning; Ok(()) on every path.
OnDispose ==
  LET outcome == IF ~runtime THEN "no_runtime"
                 ELSE IF TryUnwrap(StrongCount + 1) THEN "shutdown"
                 ELSE "skipped" IN
  /\ mounted
  /\ dispose' = [runtime |-> runtime, tasks |-> LiveTasks, outcome |-> outcome,
                 ret |-> "Ok"]
  /\ shutdown' = (shutdown \/ outcome = "shutdown")
  /\ UNCHANGED <<api_key, runtime, client, lock, writing, mounted, initTasks, reply,
                 spawned, api_url, file, saved, connect, request_vars,
                 session_vars, sink,
                 client_vars>>

\* A caller of the public ApiClient::send_streaming_request on an ApiClient
\* built by ApiClient::new(k, url).
CallApiClient(s, k) ==
  /\ pc[s] = "idle"
  /\ pc' = [pc EXCEPT ![s] = "start"]
  /\ key' = [key EXCEPT ![s] = k]
  /\ url' = [url EXCEPT ![s] = DefaultUrl]
  /\ origin' = [origin EXCEPT ![s] = "caller"]
  /\ UNCHANGED <<plugin_vars, snap, response, events, wire, aligned, lines, choices,
                 has_content, stream_id, result, exit, http, sink,
                 holds, posted>>

-----------------------------------------------------------------------------
(* One session: send_streaming_request                                     *)

\* return r, by the return statement named ex.
Return(s, r, ex) ==
  /\ pc' = [pc EXCEPT ![s] = "done"]
  /\ result' = [result EXCEPT ![s] = r]
  /\ exit' = [exit EXCEPT ![s] = ex]

\* The guard on the key: true when the request is refused.
KeyRefused(k) == IsBlank(k)

\* if self.api_key.trim().is_empty() { return Err(..) }
Begin(s) ==
  /\ pc[s] = "start"
  /\ IF KeyRefused(key[s])
     THEN Return(s, Err("ApiKeyNotSet", ""), "key")
     ELSE /\ pc' = [pc EXCEPT ![s] = "lock"]
          /\ UNCHANGED <<result, exit>>
  /\ UNCHANGED <<plugin_vars, key, origin, snap, response, events, wire, aligned, lines, choices,
                 has_content, stream_id, http, sink,
                 url, holds, posted>>

\* The handle of the session's clone is the one the plugin holds now: always
\* so when update_config keeps the handle (lib.rs), and so in plugin.rs until
\* update_config replaces the ApiClient.
OnCurrent(s) == ~holds[s].some \/ holds[s].handle = Len(old) + 1

\* let client_guard = self.client.lock().await;
LockClient(s) ==
  /\ pc[s] = "lock"
  /\ OnCurrent(s)
  /\ CanLock(lock)
  /\ lock' = s
  /\ pc' = [pc EXCEPT ![s] = "locked"]
  /\ UNCHANGED <<api_key, runtime, client, writing, mounted, initTasks, reply, spawned,
                 host_vars, request_vars, key, origin, snap, response, events, wire, aligned, lines, choices,
                 has_content, stream_id, result, exit, http, sink,
                 client_vars, url, holds, posted>>

\* The absent handle let through: the request goes on without a client.
ClientMissing_Never(v) == FALSE

\* client.ok_or("HTTP client not initialized")? : true when it returns the error.
ClientMissing(v) == v = "none"

\* client_guard.clone(), the guard dropped at the end of the block, then
\* client.ok_or(..)? on the local copy.
TakeClient(s) ==
  LET v == Observe(client, writing) IN
  /\ pc[s] = "locked"
  /\ OnCurrent(s)
  /\ snap' = [snap EXCEPT ![s] = v]
  /\ lock' = None
  /\ IF ClientMissing(v)
     THEN Return(s, Err("ClientNotInitialized", ""), "client")
     ELSE /\ pc' = [pc EXCEPT ![s] = "send"]
          /\ UNCHANGED <<result, exit>>
  /\ UNCHANGED <<api_key, runtime, client, writing, mounted, initTasks, reply, spawned,
                 host_vars, request_vars, key, origin, response, events, wire, aligned, lines, choices,
                 has_content, stream_id, http, sink,
                 client_vars, url, holds, posted>>

\* The status check left out: every response is streamed.
OnStatus_NoCheck(r) == OkResult

\* What the session does with a response: OkResult to go on to the stream,
\* or the error returned.  response.text().await? fails when the body cannot
\* be read.
OnStatus(r) ==
  IF IsSuccess(r.status) THEN OkResult
  ELSE IF ~r.readable THEN Err("BodyReadError", "")
  ELSE Err("ApiRequestFailed", r.body)

\* The request with the key and the url the plugin holds when it is sent.
RequestOf_Live(s) == [sent |-> TRUE, key |-> api_key, url |-> api_url]

\* The Bearer key of the Authorization header and the url of the POST: the
\* fields of the ApiClient the session's clone carries (client.rs), or of
\* the clone itself (lib.rs).
RequestOf(s) ==
  IF ~holds[s].some THEN [sent |-> TRUE, key |-> key[s], url |-> url[s]]
  ELSE [sent |-> TRUE, key |-> holds[s].key, url |-> holds[s].url]

\* client.post(url).headers(..).json(..).send().await?, then the status check.
SendRequestFrom(s, R, B) ==
  /\ pc[s] = "send"
  /\ http' = [http EXCEPT ![s] = @ + 1]
  /\ posted' = [posted EXCEPT ![s] = RequestOf(s)]
  /\ \/ /\ Return(s, Err("SendError", ""), "send")
        /\ UNCHANGED <<response, events, wire>>
     \/ \E r \in R, evs \in B :
          /\ response' = [response EXCEPT ![s] = r]
          /\ IF OnStatus(r).ok
             THEN /\ r.body = "" /\ r.readable
                  /\ events' = [events EXCEPT ![s] = evs]
                  /\ wire' = [wire EXCEPT ![s] = Encode(evs)]
                  /\ pc' = [pc EXCEPT ![s] = "open"]
                  /\ UNCHANGED <<result, exit>>
             ELSE /\ evs = <<>>
                  /\ Return(s, OnStatus(r), "http")
                  /\ UNCHANGED <<events, wire>>
  /\ UNCHANGED <<plugin_vars, key, origin, snap, aligned, lines, choices, has_content,
                 stream_id, sink,
                 url, holds>>

\* The server answers with any body of Bodies.
Responses == [status : Statuses, body : ErrorBodies, readable : BOOLEAN]

SendRequest(s) == SendRequestFrom(s, Responses, Bodies)

\* A failed streamStart ignored: the session goes on to read the stream.
AfterStart_Ignore(ret) == "stream"

\* match send_message_stream_start(ctx): Ok(id) => id, Err(e) => return Err(..)
AfterStart(ret) == IF ret = "Ok" THEN "stream" ELSE "fail"

\* What the three sink closures may return: any id and any outcome when the
\* caller supplies them.
AnySink ==
  [ids |-> StreamIds, start |-> {"Ok", "Err"},
   chunk |-> {"Ok", "StreamCancelled", "Other"}, end |-> {"Ok", "Err"}]

\* let stream_id = match send_message_stream_start(ctx) { Ok(id) => id, Err => return Err }
StreamStartOn(s, k) ==
  /\ pc[s] = "open"
  /\ \E id \in k.ids, ret \in k.start :
       /\ sink' = Append(sink, StartCall(s, id, ret))
       /\ IF AfterStart(ret) = "stream"
          THEN /\ stream_id' = [stream_id EXCEPT ![s] = id]
               /\ pc' = [pc EXCEPT ![s] = "read"]
               /\ UNCHANGED <<result, exit>>
          ELSE /\ Return(s, Err("StreamStartFailed", ""), "start")
               /\ UNCHANGED stream_id
  /\ UNCHANGED <<plugin_vars, key, origin, snap, response, events, wire, aligned, lines, choices,
                 has_content, http,
                 url, holds, posted>>

StreamStart(s) == StreamStartOn(s, AnySink)

\* A fixed id instead of the one streamStart returned.
CallId_Fixed(s) == "stream_001"

\* The stream id the session passes to streamChunk and streamEnd: &stream_id.
CallId(s) == stream_id[s]

\* Number of bytes of the body already read.
Consumed(s) == Len(Encode(events[s])) - Len(wire[s])

\* The segments the loop visits for one chunk.
ChunkLines(chunk) == Split(Utf8Lossy(chunk))

\* A byte stream that never ends: its last byte is yielded again and again.
Unread_LastByteAgain(w, n) == IF Len(w) = 1 THEN w ELSE Drop(w, n)

\* The bytes of the body that stream.next() has not yielded yet, after a
\* chunk of n bytes.
Unread(w, n) == Drop(w, n)

\* stream.next().await yields Some(Ok(chunk)): a non-empty prefix, of a
\* length in L, of the bytes not yet read; the for loop then runs over
\* chunk_str.split("\n\n").
ReadChunkOf(s, L) ==
  /\ pc[s] = "read"
  /\ \E n \in (1..Len(wire[s])) \cap L :
       /\ lines' = [lines EXCEPT ![s] = ChunkLines(Take(wire[s], n))]
       /\ wire' = [wire EXCEPT ![s] = Unread(@, n)]
       /\ aligned' = [aligned EXCEPT
                        ![s] = @ /\ (Consumed(s) + n) \in Boundaries(events[s])]
  /\ pc' = [pc EXCEPT ![s] = "lines"]
  /\ UNCHANGED <<plugin_vars, key, origin, snap, response, events, choices, has_content, stream_id,
                 result, exit, http, sink,
                 url, holds, posted>>

\* The transport cuts the body anywhere.
ReadChunk(s) == ReadChunkOf(s, 1..Len(wire[s]))

\* The chunk lengths that end on the end of an event.
WholeEvents(s) == {n \in 1..Len(wire[s]) : (Consumed(s) + n) \in Boundaries(events[s])}

\* stream.next().await yields Some(Err(e)): let chunk = chunk?; returns it.
ReadError(s) ==
  /\ pc[s] = "read"
  /\ Return(s, Err("ReadError", ""), "read")
  /\ UNCHANGED <<plugin_vars, key, origin, snap, response, events, wire, aligned, lines, choices,
                 has_content, stream_id, http, sink,
                 url, holds, posted>>

\* One flag for all sessions: set as soon as any session has seen content.
HasContent_Shared(s) == \E o \in AllSessions : has_content[o]

\* The has_content the code after the loop reads: the local of the session.
HasContent(s) == has_content[s]

\* The end of the stream always reported as a success.
EofEnd_AlwaysSuccess(hc) == [success |-> TRUE, error |-> None]

\* The arguments of the streamEnd call made when the byte stream has ended.
EofEnd(hc) ==
  IF hc THEN [success |-> TRUE, error |-> None]
  ELSE [success |-> FALSE, error |-> NoContentMsg]

\* A failed streamEnd returned to the caller in place of the session's result.
AfterEnd_Propagates(ret, r) == IF ret = "Ok" THEN r ELSE Err("StreamEndFailed", "")

\* let _ = send_message_stream_end(..): what streamEnd returned is dropped,
\* and the session returns r.
AfterEnd(ret, r) == r

\* stream.next().await yields None: the code after the while loop.
EndOfStreamOn(s, k) ==
  /\ pc[s] = "read"
  /\ wire[s] = <<>>
  /\ \E ret \in k.end :
       /\ sink' = Append(sink, EndCall(s, CallId(s), EofEnd(HasContent(s)).success,
                                       EofEnd(HasContent(s)).error, ret))
       /\ Return(s, AfterEnd(ret, OkResult), "eof")
  /\ UNCHANGED <<plugin_vars, key, origin, snap, response, events, wire, aligned, lines, choices,
                 has_content, stream_id, http,
                 url, holds, posted>>

EndOfStream(s) == EndOfStreamOn(s, AnySink)

\* The sentinel not recognised: [DONE] goes to the JSON parser like any payload.
Classify_NoSentinel(line) ==
  IF ~StartsWithPrefix(line) THEN "skip"
  ELSE IF ParseChunkData(StripPrefix(line)).ok THEN "parsed"
  ELSE "malformed"

\* A payload that does not parse ends the stream like the sentinel.
Classify_MalformedEnds(line) ==
  IF ~StartsWithPrefix(line) THEN "skip"
  ELSE IF StripPrefix(line) = DoneText THEN "done"
  ELSE IF ParseChunkData(StripPrefix(line)).ok THEN "parsed"
  ELSE "done"

\* What the loop body does with one segment of the chunk:
\* "skip" (no data: prefix), "done" (the sentinel), "parsed" or "malformed".
Classify(line) ==
  IF ~StartsWithPrefix(line) THEN "skip"
  ELSE IF StripPrefix(line) = DoneText THEN "done"
  ELSE IF ParseChunkData(StripPrefix(line)).ok THEN "parsed"
  ELSE "malformed"

\* One iteration of  for line in chunk_str.split("\n\n")  up to the loop over
\* the choices; when no segment is left, back to stream.next().
NextLineOn(s, k) ==
  /\ pc[s] = "lines"
  /\ IF lines[s] = <<>>
     THEN /\ pc' = [pc EXCEPT ![s] = "read"]
          /\ UNCHANGED <<lines, choices, result, exit, sink>>
     ELSE LET line == Head(lines[s])
              c == Classify(line) IN
          CASE c = "done" ->
                 /\ \E ret \in k.end :
                      /\ sink' = Append(sink, EndCall(s, CallId(s), TRUE, None, ret))
                      /\ Return(s, AfterEnd(ret, OkResult), "sentinel")
                 /\ UNCHANGED <<lines, choices>>
            [] c = "parsed" ->
                 /\ choices' = [choices EXCEPT
                                  ![s] = ParseChunkData(StripPrefix(line)).choices]
                 /\ pc' = [pc EXCEPT ![s] = "choices"]
                 /\ UNCHANGED <<lines, result, exit, sink>>
            [] OTHER ->
                 /\ lines' = [lines EXCEPT ![s] = Tail(@)]
                 /\ UNCHANGED <<pc, choices, result, exit, sink>>
  /\ UNCHANGED <<plugin_vars, key, origin, snap, response, events, wire, aligned, has_content,
                 stream_id, http,
                 url, holds, posted>>

NextLine(s) == NextLineOn(s, AnySink)

\* A choice without content handed to the sink like any other.
Delivers_NoneToo(content) == TRUE

\* if let Some(content) = choice.delta.content: is streamChunk called for it?
Delivers(content) == content # None

\* Cancellation handled like any other sink error.
AfterChunk_CancelIsError(ret) ==
  IF ret = "Ok" THEN "continue" ELSE "end_and_fail"

\* Every sink error handled like cancellation.
AfterChunk_ErrorIsSilent(ret) ==
  IF ret = "Ok" THEN "continue" ELSE "return_ok"

\* What the session does after streamChunk returned ret:
\* "continue", "return_ok" (cancelled) or "end_and_fail".
AfterChunk(ret) ==
  CASE ret = "Ok" -> "continue"
    [] ret = "StreamCancelled" -> "return_ok"
    [] OTHER -> "end_and_fail"

\* The choices visited last to first.
ChoiceOrder_Reversed(cs) == [i \in 1..Len(cs) |-> cs[Len(cs) + 1 - i]]

\* The order in which the loop visits the choices of an event.
ChoiceOrder(cs) == cs

\* One iteration of  for choice in chunk_data.choices ; when no choice is
\* left, on to the next segment.
NextChoiceOn(s, k) ==
  /\ pc[s] = "choices"
  /\ IF choices[s] = <<>>
     THEN /\ lines' = [lines EXCEPT ![s] = Tail(@)]
          /\ pc' = [pc EXCEPT ![s] = "lines"]
          /\ UNCHANGED <<choices, has_content, result, exit, sink>>
     ELSE LET content == Head(ChoiceOrder(choices[s]))
              rest == Tail(ChoiceOrder(choices[s])) IN
          IF ~Delivers(content)
          THEN /\ choices' = [choices EXCEPT ![s] = rest]
               /\ UNCHANGED <<pc, lines, has_content, result, exit, sink>>
          ELSE /\ has_content' = [has_content EXCEPT ![s] = TRUE]
               /\ \E ret \in k.chunk :
                    LET call == ChunkCall(s, CallId(s), content, ret)
                        a == AfterChunk(ret) IN
                    CASE a = "continue" ->
                           /\ sink' = Append(sink, call)
                           /\ choices' = [choices EXCEPT ![s] = rest]
                           /\ UNCHANGED <<pc, lines, result, exit>>
                      [] a = "return_ok" ->
                           /\ sink' = Append(sink, call)
                           /\ Return(s, OkResult, "cancelled")
                           /\ UNCHANGED <<lines, choices>>
                      [] OTHER ->
                           /\ \E eret \in k.end :
                                /\ sink' = sink \o
                                     <<call, EndCall(s, CallId(s), FALSE,
                                                     "Error: Other", eret)>>
                                /\ Return(s, AfterEnd(eret, Err("Other", "")), "sink")
                           /\ UNCHANGED <<lines, choices>>
  /\ UNCHANGED <<plugin_vars, key, origin, snap, response, events, wire, aligned, stream_id, http,
                 url, holds, posted>>

NextChoice(s) == NextChoiceOn(s, AnySink)

-----------------------------------------------------------------------------
(* Specification of one session                                            *)

Next ==
  \/ \E rtOk, written \in BOOLEAN : OnMount(rtOk, written)
  \/ InitializeLock
  \/ Initialize
  \/ HandleMessage(Solo)
  \/ \E s \in Solo, k \in Keys : CallApiClient(s, k)
  \/ \E s \in Solo : Begin(s)
  \/ \E s \in Solo : LockClient(s)
  \/ \E s \in Solo : TakeClient(s)
  \/ \E s \in Solo : SendRequest(s)
  \/ \E s \in Solo : StreamStart(s)
  \/ \E s \in Solo : ReadChunk(s)
  \/ \E s \in Solo : ReadError(s)
  \/ \E s \in Solo : EndOfStream(s)
  \/ \E s \in Solo : NextLine(s)
  \/ \E s \in Solo : NextChoice(s)

Spec == Init /\ [][Next]_vars

\* One step of the task that runs session s.
SessionStep(s) ==
  \/ Begin(s)
  \/ LockClient(s)
  \/ TakeClient(s)
  \/ SendRequest(s)
  \/ StreamStart(s)
  \/ ReadChunk(s)
  \/ ReadError(s)
  \/ EndOfStream(s)
  \/ NextLine(s)
  \/ NextChoice(s)

\* The runtime polls every task it was given: a session task and an
\* initialize task that can take a step are not left waiting for ever.
Fairness ==
  /\ \A s \in Solo : WF_vars(SessionStep(s))
  /\ WF_vars(InitializeLock)
  /\ WF_vars(Initialize)

\* The plugin as the host drives it, each session spawned by handle_message.
NextTasks ==
  \/ \E rtOk, written \in BOOLEAN : OnMount(rtOk, written)
  \/ InitializeLock
  \/ Initialize
  \/ HandleMessage(Solo)
  \/ \E s \in Solo : SessionStep(s)

\* The plugin with its tasks scheduled by the runtime.
FairSpec == Init /\ [][NextTasks]_vars /\ Fairness

-----------------------------------------------------------------------------
(* Specification of the request messages                                   *)

\* The "messages" list is built for the history and the user message given.
BuildRequest ==
  /\ messages = <<>>
  /\ messages' = BuildMessages(history, message)
  /\ UNCHANGED <<api_key, runtime, client, lock, writing, mounted, initTasks, reply,
                 spawned, host_vars, history, message, recent, session_vars, sink,
                 client_vars>>

\* A request about to be built, for any history and user message.
InitHistory == InitFrom({NoFile}, Histories, Contents)

NextHistory == BuildRequest

SpecHistory == InitHistory /\ [][NextHistory]_vars

-----------------------------------------------------------------------------
(* Specification of the recent history                                     *)

\* extract_recent_completed_messages(history, limit) is called and returns.
ExtractRecent ==
  /\ ~recent.called
  /\ recent' = [called |-> TRUE, limit |-> recent.limit,
                out |-> ExtractRecentCompletedMessages(history.entries, recent.limit)]
  /\ UNCHANGED <<api_key, runtime, client, lock, writing, mounted, initTasks, reply,
                 spawned, host_vars, history, message, messages, session_vars, sink,
                 client_vars>>

\* A call about to be made, for any dated history and any limit.
InitRecent ==
  InitWith({NoFile}, DatedHistories, {""},
           {[called |-> FALSE, limit |-> l, out |-> <<>>] : l \in 0..MaxHistory})

NextRecent == ExtractRecent

SpecRecent == InitRecent /\ [][NextRecent]_vars

-----------------------------------------------------------------------------
(* Specification of one session on bodies with comment lines               *)

\* Bodies with a comment line: as an event of its own before a data:
\* event, and as the first line of the event that carries the data: line.
LineBodies ==
  { <<Comment(<<": ", "ping">>), Delta(<<"He">>), Sentinel>>,
    <<Commented(<<": ", "ping">>, <<"He">>), Sentinel>> }

NextLines ==
  \/ \E rtOk, written \in BOOLEAN : OnMount(rtOk, written)
  \/ InitializeLock
  \/ Initialize
  \/ HandleMessage(Solo)
  \/ \E s \in Solo : Begin(s)
  \/ \E s \in Solo : LockClient(s)
  \/ \E s \in Solo : TakeClient(s)
  \/ \E s \in Solo : SendRequestFrom(s, Responses, LineBodies)
  \/ \E s \in Solo : StreamStart(s)
  \/ \E s \in Solo : ReadChunk(s)
  \/ \E s \in Solo : ReadError(s)
  \/ \E s \in Solo : EndOfStream(s)
  \/ \E s \in Solo : NextLine(s)
  \/ \E s \in Solo : NextChoice(s)

SpecLines == Init /\ [][NextLines]_vars

-----------------------------------------------------------------------------
(* Specification of the plugin with concurrent sessions                    *)

\* The sink of plugin.rs: send_message_stream_start returns the fixed id,
\* send_message_stream and send_message_stream_end return Ok(()).
PluginSink ==
  [ids |-> {"stream_001"}, start |-> {"Ok"}, chunk |-> {"Ok"}, end |-> {"Ok"}]

\* The bodies the server answers with in a run of concurrent sessions.
PluginBodies == {<<Delta(<<"He">>)>>, <<Delta(<<None>>)>>}

\* The responses the server answers with in such a run.
PluginResponses ==
  {[status |-> 200, body |-> "", readable |-> TRUE],
   [status |-> 401, body |-> "unauthorized", readable |-> TRUE]}

\* The keys typed into the settings in such a run.
PluginKeys == {"", "sk-1"}

\* DeepSeekPlugin::new(), with a stored key on disk.
InitPlugin == InitFrom({UserSection("sk-1", None)}, {NoHistory}, {""})

NextPlugin ==
  \/ \E rtOk, written \in BOOLEAN : OnMount(rtOk, written)
  \/ InitializeLock
  \/ Initialize
  \/ \E k \in PluginKeys : EditKey(k, TRUE)
  \/ HandleMessage(AllSessions)
  \/ OnDispose
  \/ \E s \in AllSessions : Begin(s)
  \/ \E s \in AllSessions : LockClient(s)
  \/ \E s \in AllSessions : TakeClient(s)
  \/ \E s \in AllSessions : SendRequestFrom(s, PluginResponses, PluginBodies)
  \/ \E s \in AllSessions : StreamStartOn(s, PluginSink)
  \/ \E s \in AllSessions : ReadChunkOf(s, WholeEvents(s))
  \/ \E s \in AllSessions : ReadError(s)
  \/ \E s \in AllSessions : EndOfStreamOn(s, PluginSink)
  \/ \E s \in AllSessions : NextLineOn(s, PluginSink)
  \/ \E s \in AllSessions : NextChoiceOn(s, PluginSink)

SpecPlugin == InitPlugin /\ [][NextPlugin]_vars

-----------------------------------------------------------------------------
(* The plugin of plugin.rs: update_config replaces the ApiClient           *)

\* Bound on the ApiClients replaced in one run.
MaxReplaced == 2

\* The handle of the plugin's ApiClient.
CurrentHandle ==
  [client |-> client, lock |-> lock, writing |-> writing, initTasks |-> initTasks]

\* update_config of plugin.rs: save_user_config, then
\* self.api_client = Some(ApiClient::new(key, url)), whose handle is
\* Arc::new(Mutex::new(None)), and the task that initializes it when there
\* is a runtime.  The handle replaced lives on in the clones that hold it.
ReplaceClient(k, u, rt, written) ==
  /\ file' = IF written THEN SaveUserConfig(file, k, u) ELSE file
  /\ saved' = [key |-> k, url |-> u, written |-> written]
  /\ api_client' = [some |-> TRUE, key |-> k, url |-> u]
  /\ old' = IF api_client.some THEN Append(old, CurrentHandle) ELSE old
  /\ client' = FALSE
  /\ lock' = None
  /\ writing' = FALSE
  /\ initTasks' = IF rt THEN 1 ELSE 0

\* on_mount of plugin.rs: load_user_config, then Runtime::new(); on success
\* update_config.
OnMountReplace(rtOk, written) ==
  LET cfg == ApplyConfig([api_key |-> api_key, api_url |-> api_url],
                         LoadUserConfig(file)) IN
  /\ ~mounted
  /\ mounted' = TRUE
  /\ api_key' = cfg.api_key
  /\ api_url' = cfg.api_url
  /\ runtime' = (runtime \/ rtOk)
  /\ IF rtOk
     THEN ReplaceClient(cfg.api_key, cfg.api_url, TRUE, written)
     ELSE written /\ UNCHANGED <<file, saved, client, lock, writing, initTasks, client_vars>>
  /\ UNCHANGED <<reply, spawned, connect, dispose, shutdown, request_vars,
                 session_vars, sink>>

\* update_ui of plugin.rs: the text field of the key changed to k, then
\* update_config.
ReplaceKey(k, written) ==
  /\ mounted
  /\ k # api_key
  /\ Len(old) < MaxReplaced
  /\ api_key' = k
  /\ ReplaceClient(k, api_url, runtime, written)
  /\ UNCHANGED <<runtime, mounted, reply, spawned, api_url, connect, dispose, shutdown,
                 request_vars, session_vars, sink>>

\* update_ui of plugin.rs: the text field of the url changed to u, then
\* update_config.
ReplaceUrl(u, written) ==
  /\ mounted
  /\ u # api_url
  /\ Len(old) < MaxReplaced
  /\ api_url' = u
  /\ ReplaceClient(api_key, u, runtime, written)
  /\ UNCHANGED <<api_key, runtime, mounted, reply, spawned, connect, dispose, shutdown,
                 request_vars, session_vars, sink>>

\* ApiClient::initialize on a client that was replaced, first half.
InitializeLockOld(g) ==
  /\ g \in 1..Len(old)
  /\ old[g].initTasks > 0
  /\ CanLock(old[g].lock)
  /\ old' = [old EXCEPT ![g].lock = "init", ![g].writing = TRUE]
  /\ UNCHANGED <<api_key, runtime, client, lock, writing, mounted, initTasks, reply,
                 spawned, host_vars, request_vars, api_client, session_vars, sink>>

\* ApiClient::initialize on a client that was replaced, second half.
InitializeOld(g) ==
  /\ g \in 1..Len(old)
  /\ old[g].lock = "init"
  /\ old' = [old EXCEPT ![g] = [client |-> TRUE, lock |-> None, writing |-> FALSE,
                               initTasks |-> @.initTasks - 1]]
  /\ UNCHANGED <<api_key, runtime, client, lock, writing, mounted, initTasks, reply,
                 spawned, host_vars, request_vars, api_client, session_vars, sink>>

\* DeepSeekPlugin::send_streaming_request of plugin.rs up to the lock: the
\* guard on the clone's key, self.api_client.as_ref().ok_or(..)?, then the
\* guard of ApiClient::send_streaming_request on the ApiClient's key.
BeginOnClone(s) ==
  /\ pc[s] = "start"
  /\ IF KeyRefused(key[s])
     THEN Return(s, Err("ApiKeyNotSet", ""), "key")
     ELSE IF ~holds[s].some
     THEN Return(s, Err("ApiClientNotInitialized", ""), "api_client")
     ELSE IF KeyRefused(holds[s].key)
     THEN Return(s, Err("ApiKeyNotSet", ""), "key")
     ELSE /\ pc' = [pc EXCEPT ![s] = "lock"]
          /\ UNCHANGED <<result, exit>>
  /\ UNCHANGED <<plugin_vars, key, origin, snap, response, events, wire, aligned, lines,
                 choices, has_content, stream_id, http, url, holds, posted, sink>>

\* let client_guard = self.client.lock().await; on a handle that was replaced.
LockClientOld(s) ==
  /\ pc[s] = "lock"
  /\ ~OnCurrent(s)
  /\ CanLock(old[holds[s].handle].lock)
  /\ old' = [old EXCEPT ![holds[s].handle].lock = s]
  /\ pc' = [pc EXCEPT ![s] = "locked"]
  /\ UNCHANGED <<api_key, runtime, client, lock, writing, mounted, initTasks, reply,
                 spawned, host_vars, request_vars, api_client, key, origin, snap, response,
                 events, wire, aligned, lines, choices, has_content, stream_id, result,
                 exit, http, url, holds, posted, sink>>

\* client_guard.clone() and client.ok_or(..)? on a handle that was replaced.
TakeClientOld(s) ==
  /\ pc[s] = "locked"
  /\ ~OnCurrent(s)
  /\ LET h == old[holds[s].handle]
         v == Observe(h.client, h.writing) IN
       /\ snap' = [snap EXCEPT ![s] = v]
       /\ old' = [old EXCEPT ![holds[s].handle].lock = None]
       /\ IF ClientMissing(v)
          THEN Return(s, Err("ClientNotInitialized", ""), "client")
          ELSE /\ pc' = [pc EXCEPT ![s] = "send"]
               /\ UNCHANGED <<result, exit>>
  /\ UNCHANGED <<api_key, runtime, client, lock, writing, mounted, initTasks, reply,
                 spawned, host_vars, request_vars, api_client, key, origin, response,
                 events, wire, aligned, lines, choices, has_content, stream_id, http,
                 url, holds, posted, sink>>

\* The urls typed into the settings in such a run.
PluginUrls == {DefaultUrl, AltUrl}

NextReplace ==
  \/ \E rtOk \in BOOLEAN : OnMountReplace(rtOk, TRUE)
  \/ InitializeLock
  \/ Initialize
  \/ \E g \in 1..MaxReplaced : InitializeLockOld(g)
  \/ \E g \in 1..MaxReplaced : InitializeOld(g)
  \/ \E k \in PluginKeys : ReplaceKey(k, TRUE)
  \/ \E u \in PluginUrls : ReplaceUrl(u, TRUE)
  \/ HandleMessage(Solo)
  \/ \E s \in Solo : BeginOnClone(s)
  \/ \E s \in Solo : LockClient(s)
  \/ \E s \in Solo : LockClientOld(s)
  \/ \E s \in Solo : TakeClient(s)
  \/ \E s \in Solo : TakeClientOld(s)
  \/ \E s \in Solo : SendRequestFrom(s, PluginResponses, PluginBodies)
  \/ \E s \in Solo : StreamStartOn(s, PluginSink)
  \/ \E s \in Solo : ReadChunkOf(s, WholeEvents(s))
  \/ \E s \in Solo : ReadError(s)
  \/ \E s \in Solo : EndOfStreamOn(s, PluginSink)
  \/ \E s \in Solo : NextLineOn(s, PluginSink)
  \/ \E s \in Solo : NextChoiceOn(s, PluginSink)

SpecReplace == InitPlugin /\ [][NextReplace]_vars

-----------------------------------------------------------------------------
(* Specification of the configuration                                      *)

\* DeepSeekPlugin::new(), with any config file on disk.
InitConfig == InitFrom(AllFiles, {NoHistory}, {""})

NextConfig ==
  \/ \E rtOk, written \in BOOLEAN : OnMount(rtOk, written)
  \/ \E k \in Keys, written \in BOOLEAN : EditKey(k, written)
  \/ \E u \in {"", DefaultUrl, AltUrl}, written \in BOOLEAN : EditUrl(u, written)
  \/ OnConnect
  \/ HandleMessage(Solo)
  \/ InitializeLock
  \/ Initialize

SpecConfig == InitConfig /\ [][NextConfig]_vars

-----------------------------------------------------------------------------
(* What the sink saw, and what the body says it should see                 *)

Calls(s) == SelectSeq(sink, LAMBDA c : c.s = s)
Starts(s) == SelectSeq(Calls(s), LAMBDA c : c.op = "start")
Chunks(s) == SelectSeq(Calls(s), LAMBDA c : c.op = "chunk")
Ends(s) == SelectSeq(Calls(s), LAMBDA c : c.op = "end")
Texts(cs) == [i \in 1..Len(cs) |-> cs[i].text]
Last(cs) == cs[Len(cs)]

\* The contents of an event that has a content field, in choice order.
Given(e) == SelectSeq(e.contents, LAMBDA c : c # None)

\* All contents of a body in event order, then choice order.
RECURSIVE AllTexts(_)
AllTexts(evs) ==
  IF evs = <<>> THEN <<>> ELSE Given(Head(evs)) \o AllTexts(Tail(evs))

\* The contents up to the first sentinel.
RECURSIVE ExpectedTexts(_)
ExpectedTexts(evs) ==
  IF evs = <<>> \/ Head(evs).kind = "done" THEN <<>>
  ELSE Given(Head(evs)) \o ExpectedTexts(Tail(evs))

HasSentinel(evs) == \E i \in 1..Len(evs) : evs[i].kind = "done"

RECURSIVE IsSubseq(_, _)
IsSubseq(a, b) ==
  IF a = <<>> THEN TRUE
  ELSE IF b = <<>> THEN FALSE
  ELSE IF Head(a) = Head(b) THEN IsSubseq(Tail(a), Tail(b))
  ELSE IsSubseq(a, Tail(b))

\* The session ran to the sentinel or to the end of the byte stream: every
\* streamChunk call returned Ok and no read failed.
Completed(s) == pc[s] = "done" /\ exit[s] \in {"sentinel", "eof"}

\* (success, error) of the only streamEnd call of s.
EndArgs(s) == [success |-> Ends(s)[1].success, error |-> Ends(s)[1].error]

-----------------------------------------------------------------------------
(* Claims                                                                  *)

\* C1: for every way of cutting the byte stream of a body of data: events
\* into chunks, a session that runs to completion hands the sink the same
\* payloads, in the same order, as when every event arrives whole, and ends
\* the stream the same way.
C1_AnySplitSamePayloads ==
  \A s \in AllSessions :
    (Completed(s) /\ \A i \in 1..Len(events[s]) : events[s][i].kind # "comment")
      => /\ Texts(Chunks(s)) = ExpectedTexts(events[s])
         /\ Len(Ends(s)) = 1
         /\ EndArgs(s).success =
              (HasSentinel(events[s]) \/ ExpectedTexts(events[s]) # <<>>)

\* C2: a streamChunk call that returned StreamCancelled is the last call the
\* sink receives from that session: no streamChunk follows, streamEnd is never
\* called, and the session has returned Ok.
C2_CancelStopsSilently ==
  \A s \in AllSessions :
    \A i \in 1..Len(Calls(s)) :
      (Calls(s)[i].op = "chunk" /\ Calls(s)[i].ret = "StreamCancelled")
        => /\ i = Len(Calls(s))
           /\ Ends(s) = <<>>
           /\ pc[s] = "done"
           /\ result[s] = OkResult

\* C2 witness: a session cancelled while a further choice of the same event,
\* further segments of the chunk and further bytes were still pending.
C2_Witness ==
  \E s \in AllSessions :
    /\ exit[s] = "cancelled"
    /\ Len(choices[s]) > 1
    /\ Len(lines[s]) > 1
    /\ wire[s] # <<>>

\* C3: a streamChunk call that returned an error other than cancellation is
\* followed by exactly one call, streamEnd(id, false, message of that error);
\* the session has returned that error, and nothing further is read or sent.
C3_SinkErrorEndsAndFails ==
  \A s \in AllSessions :
    \A i \in 1..Len(Calls(s)) :
      (Calls(s)[i].op = "chunk" /\ Calls(s)[i].ret = "Other")
        => /\ Len(Calls(s)) = i + 1
           /\ Len(Ends(s)) = 1
           /\ Last(Calls(s)).op = "end"
           /\ Last(Calls(s)).id = Calls(s)[i].id
           /\ EndArgs(s) = [success |-> FALSE, error |-> "Error: Other"]
           /\ pc[s] = "done"
           /\ result[s] = Err("Other", "")

\* C3 witness: a session failed by the sink with input still pending.
C3_Witness ==
  \E s \in AllSessions :
    /\ exit[s] = "sink"
    /\ result[s] = Err("Other", "")
    /\ Len(choices[s]) > 1
    /\ wire[s] # <<>>

\* C4: a session that met the sentinel has called streamEnd(id, true, None)
\* exactly once, as its last sink call, and returned Ok; and when the events
\* arrive whole and the body holds a sentinel, the session ends at it, having
\* sent exactly the contents that precede it: nothing for the sentinel and
\* nothing for what follows it.
C4_SentinelEndsStream ==
  \A s \in AllSessions :
    /\ exit[s] = "sentinel"
         => /\ result[s] = OkResult
            /\ Len(Ends(s)) = 1
            /\ Last(Calls(s)).op = "end"
            /\ EndArgs(s) = [success |-> TRUE, error |-> None]
            /\ HasSentinel(events[s])
    /\ (Completed(s) /\ aligned[s] /\ HasSentinel(events[s]))
         => /\ exit[s] = "sentinel"
            /\ Texts(Chunks(s)) = ExpectedTexts(events[s])

\* C4 witness: the sentinel was met with a later event in the same chunk and
\* a later chunk still unread.
C4_Witness ==
  \E s \in AllSessions :
    /\ exit[s] = "sentinel"
    /\ aligned[s]
    /\ Len(lines[s]) > 1
    /\ StartsWithPrefix(lines[s][2])
    /\ wire[s] # <<>>

\* C5: a session that reached the end of the byte stream without meeting the
\* sentinel has called streamEnd exactly once, as its last sink call, and
\* returned Ok: with (true, None) when some streamChunk call was made and
\* returned Ok, with (false, "no content received") otherwise.
C5_EndOfStreamOutcome ==
  \A s \in AllSessions :
    /\ exit[s] = "eof"
         => /\ result[s] = OkResult
            /\ Len(Ends(s)) = 1
            /\ Last(Calls(s)).op = "end"
            /\ LET delivered == \E i \in 1..Len(Chunks(s)) : Chunks(s)[i].ret = "Ok"
               IN EndArgs(s) = IF delivered
                               THEN [success |-> TRUE, error |-> None]
                               ELSE [success |-> FALSE, error |-> NoContentMsg]
    /\ (Completed(s) /\ aligned[s] /\ ~HasSentinel(events[s])) => exit[s] = "eof"

\* C5 witness: the byte stream of a non-empty body ended and nothing had been
\* delivered.
C5_Witness ==
  \E s \in AllSessions :
    /\ exit[s] = "eof"
    /\ events[s] # <<>>
    /\ Chunks(s) = <<>>
    /\ EndArgs(s) = [success |-> FALSE, error |-> NoContentMsg]

\* The step that visits a data: segment whose payload does not parse makes no
\* sink call, returns nothing and goes on to the next segment.
C6_SkipStep ==
  \A s \in AllSessions :
    ( /\ pc[s] = "lines"
      /\ lines[s] # <<>>
      /\ StartsWithPrefix(Head(lines[s]))
      /\ StripPrefix(Head(lines[s])) # DoneText
      /\ ~ParseChunkData(StripPrefix(Head(lines[s]))).ok
      /\ <<pc[s], lines[s], sink>>' # <<pc[s], lines[s], sink>> )
      => /\ sink' = sink
         /\ pc'[s] = "lines"
         /\ lines'[s] = Tail(lines[s])
         /\ result'[s] = NoResult

\* A body that holds a malformed event, arriving whole, is delivered as if that
\* event were absent.
C6_WholeBody ==
  \A s \in AllSessions :
    ( /\ Completed(s)
      /\ aligned[s]
      /\ \E i \in 1..Len(events[s]) : events[s][i].kind = "malformed" )
      => /\ result[s] = OkResult
         /\ Texts(Chunks(s)) = ExpectedTexts(events[s])
         /\ events[s] = <<Delta(<<"He">>), Malformed(<<Open, "<He>">>), Delta(<<"llo">>)>>
              => Texts(Chunks(s)) = <<"He", "llo">>

\* C6: a data: segment whose payload does not parse is passed over without a
\* sink call, without an error and without ending the session; the events
\* before and after it are still delivered: He, malformed, llo gives exactly
\* the two calls streamChunk(He), streamChunk(llo), in that order.
C6_MalformedSkipped == [](C6_WholeBody) /\ [][C6_SkipStep]_vars

\* C6 witness: He, malformed, llo arrived whole and both contents were sent.
C6_Witness ==
  \E s \in AllSessions :
    /\ Completed(s)
    /\ aligned[s]
    /\ events[s] = <<Delta(<<"He">>), Malformed(<<Open, "<He>">>), Delta(<<"llo">>)>>
    /\ Texts(Chunks(s)) = <<"He", "llo">>

\* C7: per session, streamStart is called at most once and streamEnd at most
\* once; every streamChunk and streamEnd call comes after a streamStart call
\* that returned Ok and carries the id it returned; streamEnd is the last
\* call, so no streamChunk follows it, and it is made by a finished session.
C7_OneStreamOneEnd ==
  \A s \in AllSessions :
    LET cs == Calls(s) IN
    /\ Len(Starts(s)) <= 1
    /\ Len(Ends(s)) <= 1
    /\ \A i \in 1..Len(cs) :
         /\ cs[i].op = "start" => i = 1
         /\ cs[i].op \in {"chunk", "end"}
              => /\ cs[1].op = "start"
                 /\ cs[1].ret = "Ok"
                 /\ cs[i].id = cs[1].id
                 /\ cs[i].id = stream_id[s]
         /\ cs[i].op = "end" => (i = Len(cs) /\ pc[s] = "done")
    /\ (cs # <<>> /\ cs[1].ret = "Err") => (Len(cs) = 1 /\ pc[s] = "done")

\* C7 witness: a finished session with one start, two chunks and one end, all
\* under the second id the sink can return.
C7_Witness ==
  \E s \in AllSessions :
    /\ pc[s] = "done"
    /\ Len(Starts(s)) = 1
    /\ Len(Chunks(s)) = 2
    /\ Len(Ends(s)) = 1
    /\ stream_id[s] = "stream_002"

\* C8: the texts the sink receives are, in order, contents of the body in
\* event order then choice order (none twice, none merged); when the events
\* arrive whole they are exactly the contents up to the sentinel; and for He,
\* llo, [DONE] the sink receives streamChunk(He), streamChunk(llo),
\* streamEnd(true, None), in that order, after streamStart.
C8_ArrivalOrder ==
  \A s \in AllSessions :
    /\ IsSubseq(Texts(Chunks(s)), AllTexts(events[s]))
    /\ \A i \in 1..Len(Chunks(s)) : ~Chunks(s)[i].final
    /\ (Completed(s) /\ aligned[s])
         => /\ Texts(Chunks(s)) = ExpectedTexts(events[s])
            /\ events[s] = <<Delta(<<"He">>), Delta(<<"llo">>), Sentinel>>
                 => [i \in 1..Len(Calls(s)) |->
                       <<Calls(s)[i].op, Calls(s)[i].text, Calls(s)[i].success,
                         Calls(s)[i].error>>]
                    = << <<"start", "", FALSE, None>>, <<"chunk", "He", FALSE, None>>,
                         <<"chunk", "llo", FALSE, None>>, <<"end", "", TRUE, None>> >>

\* C8 witness: an event with two choices arrived whole and both were sent, in
\* choice order, before the sentinel ended the stream.
C8_Witness ==
  \E s \in AllSessions :
    /\ Completed(s)
    /\ aligned[s]
    /\ events[s] # <<>>
    /\ events[s][1] = Delta(<<"He", "llo">>)
    /\ Texts(Chunks(s)) = <<"He", "llo">>
    /\ Last(Calls(s)).op = "end"

\* C9: handle_message called with a blank key returns the key error and spawns
\* no task; and a session that runs on a blank key issues no HTTP request,
\* makes no sink call and returns the key error.
C9_BlankKeyNoTraffic ==
  /\ (reply.ret # "none" /\ IsBlank(reply.key))
       => (reply.ret = "ErrKeyNotSet" /\ reply.task = None)
  /\ \A s \in AllSessions :
       (pc[s] # "idle" /\ IsBlank(key[s]))
         => /\ http[s] = 0
            /\ Calls(s) = <<>>
            /\ pc[s] \in {"start", "done"}
            /\ pc[s] = "done" => result[s] = Err("ApiKeyNotSet", "")

\* C9 witness: handle_message refused a whitespace-only key on a plugin with
\* a runtime, and a session on a whitespace-only key returned the key error.
C9_Witness ==
  /\ reply.ret = "ErrKeyNotSet"
  /\ reply.key = "  "
  /\ reply.runtime
  /\ \E s \in AllSessions :
       key[s] = "  " /\ pc[s] = "done" /\ result[s] = Err("ApiKeyNotSet", "")

\* C10 as stated: a response whose status is not 2xx makes the session return
\* an error carrying the body text, after one request and no sink call.
C10_ErrorCarriesBody ==
  \A s \in AllSessions :
    (response[s] # NoResponse /\ response[s].status \notin 200..299)
      => /\ pc[s] = "done"
         /\ result[s] = Err("ApiRequestFailed", response[s].body)
         /\ http[s] = 1
         /\ Calls(s) = <<>>

\* C10 amended: a response whose status is not 2xx makes the session return an
\* error after one request and no sink call; the error carries the body text
\* when the body could be read, and is the read error when it could not.
C10_ErrorCarriesBodyIfRead ==
  \A s \in AllSessions :
    (response[s] # NoResponse /\ response[s].status \notin 200..299)
      => /\ pc[s] = "done"
         /\ ~result[s].ok
         /\ response[s].readable => result[s] = Err("ApiRequestFailed", response[s].body)
         /\ ~response[s].readable => result[s] = Err("BodyReadError", "")
         /\ http[s] = 1
         /\ Calls(s) = <<>>

\* C10 witness: a 401 whose body was read.
C10_Witness ==
  \E s \in AllSessions :
    /\ response[s].status = 401
    /\ result[s] = Err("ApiRequestFailed", "unauthorized")
    /\ http[s] = 1

-----------------------------------------------------------------------------
(* C11, C12: the session before the stream is read                         *)

\* C11: a session that finds the shared HTTP client handle absent returns the
\* not-initialized error having issued no POST and made no sink call, and
\* every session that went past the snapshot holds a client; a session on a
\* blank key returns the key error and never looks at the handle, whether
\* the handle is set or not.
C11_AbsentClientFails ==
  \A s \in AllSessions :
    /\ snap[s] = "none"
         => /\ pc[s] = "done"
            /\ result[s] = Err("ClientNotInitialized", "")
            /\ http[s] = 0
            /\ Calls(s) = <<>>
    /\ pc[s] \in {"send", "open", "read", "lines", "choices"} => snap[s] = "some"
    /\ (http[s] > 0 \/ Calls(s) # <<>>) => snap[s] = "some"
    /\ (IsBlank(key[s]) /\ pc[s] = "done")
         => /\ result[s] = Err("ApiKeyNotSet", "")
            /\ snap[s] = "unset"

\* C11 witness: a session on a non-blank key ran before the handle was set
\* and returned the not-initialized error.
C11_Witness ==
  \E s \in AllSessions :
    /\ ~IsBlank(key[s])
    /\ ~client
    /\ snap[s] = "none"
    /\ exit[s] = "client"
    /\ result[s] = Err("ClientNotInitialized", "")

\* C12: when streamStart fails after a 2xx response the session returns the
\* start error; the failed streamStart is the only sink call of the session
\* (no streamChunk, no streamEnd) and no byte of the body has been read.
C12_StartFailureStops ==
  \A s \in AllSessions :
    (Starts(s) # <<>> /\ Starts(s)[1].ret = "Err")
      => /\ IsSuccess(response[s].status)
         /\ pc[s] = "done"
         /\ result[s] = Err("StreamStartFailed", "")
         /\ Len(Calls(s)) = 1
         /\ Consumed(s) = 0
         /\ lines[s] = <<>>

\* C12 witness: streamStart failed on a response whose body had events to
\* read.
C12_Witness ==
  \E s \in AllSessions :
    /\ exit[s] = "start"
    /\ response[s].status = 200
    /\ events[s] # <<>>
    /\ wire[s] = Encode(events[s])
    /\ Last(Calls(s)).op = "start"

-----------------------------------------------------------------------------
(* C13 - C16: the plugin with concurrent sessions                          *)

\* The tasks handle_message has spawned so far.
Tasks == {s \in AllSessions : origin[s] = "plugin"}

\* A step that spawns: the plugin had a non-blank key and a runtime, one idle
\* slot becomes a task at its start and no other session moves, the call
\* returns the acknowledgement naming that task, and no POST, no sink call
\* and no session result happens in the step.
C13_SpawnStep ==
  spawned' # spawned
    => /\ spawned' = spawned + 1
       /\ ~IsBlank(api_key) /\ runtime
       /\ reply'.ret = "Ack"
       /\ \E s \in AllSessions :
            /\ pc[s] = "idle" /\ pc'[s] = "start"
            /\ reply'.task = s
            /\ \A o \in AllSessions \ {s} : pc'[o] = pc[o]
       /\ http' = http /\ sink' = sink /\ result' = result

\* A step of a running session leaves the value handle_message returned alone.
C13_SessionStep ==
  (\E s \in AllSessions : pc[s] # "idle" /\ pc'[s] # pc[s]) => reply' = reply

\* C13: every accepted handle_message call (non-blank key, runtime present)
\* spawns exactly one streaming task and returns the acknowledgement in the
\* same step, before any POST or sink call of that task; the tasks are as
\* many as the accepted calls, and no step of a session changes the value
\* that was returned.
C13_SpawnOneAndAck ==
  /\ [](spawned = Cardinality(Tasks))
  /\ [](reply.ret = "Ack" => (~IsBlank(reply.key) /\ reply.runtime /\ reply.task \in Tasks))
  /\ [][C13_SpawnStep /\ C13_SessionStep]_vars

\* C13 witness: two calls were acknowledged; the task of the first has
\* failed and the task of the second has not run yet.
C13_Witness ==
  /\ spawned = 2
  /\ reply.ret = "Ack"
  /\ pc[reply.task] = "start"
  /\ \E s \in Tasks : pc[s] = "done" /\ ~result[s].ok

\* The session is Active: streamStart succeeded and the session has not returned.
Active(s) == pc[s] \in {"read", "lines", "choices"}

\* C14 as stated: two sessions that are Active at the same time have
\* different stream ids.
C14_DistinctStreamIds ==
  \A s, o \in AllSessions :
    (s # o /\ Active(s) /\ Active(o)) => stream_id[s] # stream_id[o]

\* C15: the handle is read and written under the lock: the lock is held by
\* the initialize task exactly while its store is under way and by a
\* session exactly while it takes its snapshot, never while the session
\* sends the request or reads the stream, and a snapshot is the absent
\* handle or the set one, never a partial value.
C15_HandleUnderLock ==
  /\ lock \in {None, "init"} \cup AllSessions
  /\ writing <=> lock = "init"
  /\ \A s \in AllSessions :
       /\ lock = s <=> pc[s] = "locked"
       /\ snap[s] \in {"unset", "none", "some"}
       /\ pc[s] \in {"send", "open", "read", "lines", "choices"} => snap[s] = "some"

\* C15 witness: one session reads the stream with its snapshot while the
\* initialize task holds the lock and the other session waits for it.
C15_Witness ==
  \E s, o \in AllSessions :
    /\ pc[s] = "read" /\ snap[s] = "some"
    /\ lock = "init" /\ writing
    /\ pc[o] = "lock"

\* C16 as stated: on_dispose returns success; it shuts the runtime down when
\* the plugin is its only owner, and skips the shutdown when tasks in flight
\* own it too.
C16_DisposeTearsDown ==
  dispose.outcome # "none"
    => /\ dispose.ret = "Ok"
       /\ (dispose.runtime /\ dispose.tasks = {})
            => (dispose.outcome = "shutdown" /\ shutdown)
       /\ (dispose.runtime /\ dispose.tasks # {}) => dispose.outcome = "skipped"

-----------------------------------------------------------------------------
(* C17, C18: the messages of the request                                   *)

\* The positions of the history entries that are completed and not blank.
KeptAt(h) ==
  {i \in 1..Len(h) : h[i].status = "completed" /\ h[i].content \notin {"", "  "}}

\* The n-th smallest element of a set of positions.
Nth(K, n) == CHOOSE i \in K : Cardinality({k \in K : k < i}) = n - 1

\* The role the claim gives for a history role.
ClaimedRole(role) ==
  IF role = "plugin" THEN "assistant"
  ELSE IF role \in {"user", "system"} THEN role
  ELSE "user"

\* The request has been built.
Built == messages # <<>>

\* The messages before the last one.
Prior == SubSeq(messages, 1, Len(messages) - 1)

\* C17: the message list of the request is the prior turns extracted from
\* the history, in history order, followed by the current user turn, last
\* and with role user; without a history, and with a history that has no
\* completed turn, it is exactly the current user turn.
C17_HistoryThenUserTurn ==
  Built
    => /\ messages[Len(messages)] = [role |-> "user", content |-> message]
       /\ Len(messages) =
            1 + (IF history.some THEN Cardinality(KeptAt(history.entries)) ELSE 0)
       /\ \A n \in 1..(Len(messages) - 1) :
            messages[n].content = history.entries[Nth(KeptAt(history.entries), n)].content
       /\ ~history.some => messages = <<[role |-> "user", content |-> message]>>

\* C17 witness: a request built from a history with one completed plugin
\* turn and one turn still streaming.
C17_Witness ==
  /\ Built
  /\ history.some
  /\ Len(history.entries) = 2
  /\ history.entries[1].status = "streaming"
  /\ history.entries[2] = [role |-> "plugin", content |-> "hi", status |-> "completed"]
  /\ message = " hi "
  /\ Len(messages) = 2

\* C18: the extracted messages are, in history order, one per history entry
\* whose status is "completed" and whose content is not blank, and none for
\* the other entries; plugin becomes assistant, user and system stay, any
\* other role becomes user; the content is the entry's, unchanged.
C18_ExtractCompleted ==
  (Built /\ history.some)
    => LET h == history.entries
           K == KeptAt(h) IN
       /\ Len(Prior) = Cardinality(K)
       /\ \A n \in 1..Len(Prior) :
            /\ Prior[n].role = ClaimedRole(h[Nth(K, n)].role)
            /\ Prior[n].content = h[Nth(K, n)].content

\* C18 witness: a history with a completed plugin turn whose content has
\* spaces around it, and a completed turn of an unknown role.
C18_Witness ==
  /\ Built
  /\ history.some
  /\ Len(history.entries) = 2
  /\ history.entries[1] = [role |-> "plugin", content |-> " hi ", status |-> "completed"]
  /\ history.entries[2] = [role |-> "tool", content |-> "hi", status |-> "completed"]
  /\ Prior = <<[role |-> "assistant", content |-> " hi "],
               [role |-> "user", content |-> "hi"]>>

-----------------------------------------------------------------------------
(* C19: the configuration                                                  *)

\* The file has a value for the field x of its [user] section.
HasField(f, x) == f.loads /\ f.user /\ f[x] # None

\* What a newly created plugin holds after loading the file f.
Loaded(f) == ApplyConfig([api_key |-> "", api_url |-> DefaultUrl], LoadUserConfig(f))

\* The step of on_mount: whatever the file, the plugin is mounted, and each
\* of the two fields is the stored value when the file has one and the
\* default (empty key, canonical endpoint) when the file, its [user]
\* section or the field is absent.
C19_LoadStep ==
  (~mounted /\ mounted')
    => /\ api_key' = (IF HasField(file, "api_key") THEN file.api_key ELSE "")
       /\ api_url' = (IF HasField(file, "api_url") THEN file.api_url ELSE DefaultUrl)

\* C19: loading the configuration never fails and keeps the default for
\* what the file lacks; every handle_message and on_connect call made while
\* the key is blank is rejected; and after a save of a non-blank key and a
\* non-blank url whose write succeeded, loading the file yields these two
\* values.
C19_ConfigDefaultsAndRoundTrip ==
  /\ [][C19_LoadStep]_vars
  /\ [](IsBlank(reply.key) => reply.ret = "ErrKeyNotSet")
  /\ [](IsBlank(connect.key) => connect.ret = "ErrNotConfigured")
  /\ []((saved.written /\ ~IsBlank(saved.key) /\ ~IsBlank(saved.url))
          => Loaded(file) = [api_key |-> saved.key, api_url |-> saved.url])

\* C19 witness: the plugin was mounted on a file without a key, refused
\* handle_message and on_connect, and then saved a key and another url.
C19_Witness ==
  /\ mounted
  /\ reply.ret = "ErrKeyNotSet" /\ reply.key = ""
  /\ connect.ret = "ErrNotConfigured" /\ connect.key = "" /\ connect.url = DefaultUrl
  /\ saved = [key |-> "sk-1", url |-> AltUrl, written |-> TRUE]
  /\ file = UserSection("sk-1", AltUrl)
  /\ api_key = "sk-1" /\ api_url = AltUrl

-----------------------------------------------------------------------------
(* C21 - C23: what the loop does with lines, events and deltas             *)

\* C21 as stated: comment lines are discarded and do not keep a data: line
\* that follows them from being processed: a session that ran to the
\* sentinel or to the end of a stream whose chunks ended on event ends has
\* handed the sink the contents of every data: line before the sentinel.
C21_CommentsDiscarded ==
  \A s \in AllSessions :
    (Completed(s) /\ aligned[s]) => Texts(Chunks(s)) = ExpectedTexts(events[s])

\* Every event of the body is a completion chunk without any content.
NoContentBody(evs) ==
  /\ evs # <<>>
  /\ \A i \in 1..Len(evs) : evs[i].kind = "delta" /\ Given(evs[i]) = <<>>

\* The step that visits a choice without content, or finds no choice left:
\* no sink call, has_content as before, no return, and the loop goes on to
\* the next choice or to the next segment.
C22_NoContentStep ==
  \A s \in AllSessions :
    /\ (pc[s] = "choices" /\ choices[s] # <<>> /\ Head(choices[s]) = None
          /\ choices'[s] # choices[s])
         => /\ choices'[s] = Tail(choices[s])
            /\ pc'[s] = "choices"
            /\ sink' = sink /\ has_content'[s] = has_content[s] /\ result'[s] = result[s]
    /\ (pc[s] = "choices" /\ choices[s] = <<>> /\ pc'[s] # pc[s])
         => /\ pc'[s] = "lines"
            /\ lines'[s] = Tail(lines[s])
            /\ sink' = sink /\ has_content'[s] = has_content[s] /\ result'[s] = result[s]

\* A session that read a body of events without content to its end made no
\* streamChunk call, never set has_content and returned Ok.
C22_NoContentBody ==
  \A s \in AllSessions :
    (Completed(s) /\ NoContentBody(events[s]))
      => /\ Chunks(s) = <<>>
         /\ ~has_content[s]
         /\ exit[s] = "eof"
         /\ result[s] = OkResult

\* C22: a well-formed event whose choices carry no content, or that has no
\* choices, produces no streamChunk call and no error and leaves has_content
\* as it was, and the session goes on with what follows it.
C22_NoContentEvent == [](C22_NoContentBody) /\ [][C22_NoContentStep]_vars

\* C22 witness: a body of one event whose choice has no content field and
\* one event without choices, read whole to its end.
C22_Witness ==
  \E s \in AllSessions :
    /\ Completed(s)
    /\ aligned[s]
    /\ events[s] = <<Delta(<<None>>), Delta(<<>>)>>
    /\ Chunks(s) = <<>>
    /\ EndArgs(s) = [success |-> FALSE, error |-> NoContentMsg]

\* C23 as stated: streamChunk is called only for a non-empty text and with
\* isFinal = false, and has_content is true only when such a call returned
\* success.
C23_ChunkOnlyForText ==
  \A s \in AllSessions :
    /\ \A i \in 1..Len(Chunks(s)) : Chunks(s)[i].text # "" /\ ~Chunks(s)[i].final
    /\ has_content[s]
         => \E i \in 1..Len(Chunks(s)) : Chunks(s)[i].ret = "Ok" /\ Chunks(s)[i].text # ""

-----------------------------------------------------------------------------
(* C24 - C29: sessions next to each other and next to the plugin           *)

\* Everything a session holds: its position, its inputs and its locals.
Local(s) ==
  <<pc[s], key[s], origin[s], snap[s], response[s], events[s], wire[s], aligned[s],
    lines[s], choices[s], has_content[s], stream_id[s], result[s], exit[s], http[s],
    url[s], holds[s], posted[s]>>

\* A step that changes what one session holds changes nothing of what
\* another holds and adds no sink call of another.
C24_OwnStateStep ==
  \A s, o \in AllSessions :
    (s # o /\ Local(s)' # Local(s)) => (Local(o)' = Local(o) /\ Calls(o)' = Calls(o))

\* What a session that runs alone hands the sink for its body when every
\* sink call succeeds: the contents before the sentinel, then one streamEnd
\* that tells whether there was a sentinel or any content.
C24_AsAlone ==
  \A s \in AllSessions :
    /\ (Completed(s) /\ aligned[s])
         => /\ Texts(Chunks(s)) = ExpectedTexts(events[s])
            /\ Len(Ends(s)) = 1
            /\ EndArgs(s).success = (HasSentinel(events[s]) \/ ExpectedTexts(events[s]) # <<>>)
            /\ result[s] = OkResult
    /\ pc[s] \in {"idle", "start", "lock", "locked", "send", "open"}
         => (~has_content[s] /\ lines[s] = <<>> /\ choices[s] = <<>>)

\* C24: under every interleaving of two sessions, each session makes the
\* sink calls and returns the result that its own byte stream gives when it
\* runs alone; a step of one session changes no state of the other, and a
\* session starts with no decode state and has_content false.
C24_SessionsIndependent == [](C24_AsAlone) /\ [][C24_OwnStateStep]_vars

\* C24 witness: two sessions with different bodies ran interleaved to the
\* end; one delivered content and ended with success, the other did not.
C24_Witness ==
  /\ \A s \in AllSessions : Completed(s)
  /\ events["s1"] = <<Delta(<<"He">>)>>
  /\ events["s2"] = <<Delta(<<None>>)>>
  /\ Len(sink) >= 3 /\ sink[1].s = "s1" /\ sink[2].s = "s2" /\ sink[3].s = "s1"
  /\ EndArgs("s1").success
  /\ ~EndArgs("s2").success

\* C25 as stated: a session that got a stream id from streamStart and was
\* not cancelled by the sink has called streamEnd exactly once when it has
\* returned, by whatever return statement, a failed read of the next chunk
\* included.
C25_EndOnEveryExit ==
  \A s \in AllSessions :
    (pc[s] = "done" /\ stream_id[s] # None /\ exit[s] # "cancelled")
      => Len(Ends(s)) = 1

\* C28: what streamEnd returns never changes what the session returns: after
\* the sentinel and after the end of the byte stream the session returns Ok,
\* and after a sink error other than cancellation it returns that error,
\* whether streamEnd succeeded or failed.
C28_EndFailureIgnored ==
  \A s \in AllSessions :
    (pc[s] = "done" /\ Ends(s) # <<>>)
      => /\ exit[s] \in {"sentinel", "eof", "sink"}
         /\ exit[s] \in {"sentinel", "eof"} => result[s] = OkResult
         /\ exit[s] = "sink" => result[s] = Err("Other", "")

\* C28 witness: after a sink error other than cancellation streamEnd failed
\* too, and the session returned the sink error.
C28_Witness ==
  \E s \in AllSessions :
    /\ exit[s] = "sink"
    /\ Last(Chunks(s)).ret = "Other"
    /\ Ends(s)[1].ret = "Err"
    /\ result[s] = Err("Other", "")

\* The step of a handle_message call made without a runtime: it returns the
\* key error when the key is blank and the runtime error otherwise, and
\* changes nothing but the value returned.
C29_RejectStep ==
  (reply' # reply /\ ~runtime)
    => /\ reply'.ret = (IF IsBlank(api_key) THEN "ErrKeyNotSet"
                        ELSE "ErrRuntimeNotInitialized")
       /\ reply'.task = None
       /\ UNCHANGED <<api_key, runtime, client, lock, writing, mounted, initTasks,
                      spawned, host_vars, request_vars, session_vars, sink,
                 client_vars>>

\* C29: handle_message called while the plugin has no runtime returns an
\* error, spawns no task, makes no sink call and no POST and leaves the
\* plugin as it was; with a blank key it returns the key error, not the
\* runtime error.
C29_NoRuntimeRejected ==
  /\ [][C29_RejectStep]_vars
  /\ [](reply.ret = "ErrRuntimeNotInitialized"
          => (~reply.runtime /\ ~IsBlank(reply.key) /\ reply.task = None))
  /\ []((reply.ret # "none" /\ ~reply.runtime) => reply.ret # "Ack")

\* C29 witness: on_mount failed to create the runtime and handle_message was
\* then refused on a stored key.
C29_Witness ==
  /\ mounted
  /\ ~runtime
  /\ reply = [key |-> "sk-1", runtime |-> FALSE, ret |-> "ErrRuntimeNotInitialized",
              task |-> None]
  /\ spawned = 0
  /\ sink = <<>>

\* A session that has returned makes no sink call and stays returned.
C30_QuietStep ==
  \A s \in AllSessions :
    pc[s] = "done" => (pc'[s] = "done" /\ Calls(s)' = Calls(s))

\* C30: the body is finite and every sink call returns, so every session that
\* was started returns in the end, and makes no sink call after that.
C30_SessionsTerminate ==
  /\ \A s \in AllSessions : (pc[s] # "idle") ~> (pc[s] = "done")
  /\ [][C30_QuietStep]_vars

\* C30 witness: a session read its whole body, delivered text, ended the
\* stream and returned.
C30_Witness ==
  \E s \in AllSessions :
    /\ pc[s] = "done"
    /\ exit[s] = "eof"
    /\ wire[s] = <<>>
    /\ Chunks(s) # <<>>
    /\ Len(Ends(s)) = 1

\* C26 as stated: once an initialize task has completed, the handle of the
\* plugin's ApiClient is never absent again, whatever edits, initialize
\* tasks and handle_message calls follow, so no session accepted after that
\* returns the error of the absent client.
C26_ClientNeverAbsentAgain ==
  /\ Initialized => Observe(client, writing) # "none"
  /\ \A s \in AllSessions :
       (holds[s].ready /\ snap[s] # "unset") => snap[s] # "none"

\* handle_message accepts a message and hands it to the task of session s.
Accepted(s) == pc[s] = "idle" /\ pc'[s] = "start"

\* The clone made when a message is accepted carries the key and the url the
\* plugin holds at that moment, in its own fields and in its ApiClient.
C27_AcceptStep ==
  \A s \in AllSessions :
    Accepted(s)
      => /\ key'[s] = api_key
         /\ url'[s] = api_url
         /\ holds'[s].some => (holds'[s].key = api_key /\ holds'[s].url = api_url)

\* No step changes the key and the url of a session that was accepted, nor
\* the request it has sent; no step of a session changes the configuration
\* of the plugin.
C27_KeepStep ==
  \A s \in AllSessions :
    pc[s] # "idle"
      => /\ key'[s] = key[s] /\ url'[s] = url[s] /\ holds'[s] = holds[s]
         /\ posted[s].sent => posted'[s] = posted[s]
         /\ Local(s)' # Local(s)
              => UNCHANGED <<api_key, api_url, api_client, file, saved>>

\* The POST of a session carries the key and goes to the url of its clone.
C27_Posted ==
  \A s \in AllSessions :
    posted[s].sent => (posted[s].key = key[s] /\ posted[s].url = url[s])

\* C27: a session sends its request with the key and to the url that the
\* plugin held when handle_message accepted the message; an edit of the
\* configuration made while the session runs changes neither, and the
\* session never changes the configuration of the plugin.
C27_SessionUsesAcceptedConfig ==
  [](C27_Posted) /\ [][C27_AcceptStep /\ C27_KeepStep]_vars

\* C27 witness: a session has just sent its request with the key and to the
\* url it was accepted with, on an ApiClient that was replaced since; the
\* plugin now holds another key and another url.
C27_Witness ==
  \E s \in AllSessions :
    /\ pc[s] = "open"
    /\ posted[s] = [sent |-> TRUE, key |-> "sk-1", url |-> DefaultUrl]
    /\ holds[s].some /\ holds[s].handle < Len(old) + 1
    /\ api_key = ""
    /\ api_url = AltUrl

-----------------------------------------------------------------------------
(* C31: the recent history                                                 *)

\* idx lists positions of K without repetition, oldest first, and no
\* position of K left out was created after one that is listed.
MostRecent(h, K, idx) ==
  /\ \A n, m \in DOMAIN idx :
       n < m => (idx[n] # idx[m] /\ h[idx[n]].created_at <= h[idx[m]].created_at)
  /\ \A k \in K, n \in DOMAIN idx :
       (\A m \in DOMAIN idx : idx[m] # k) => h[k].created_at <= h[idx[n]].created_at

\* C31 as stated: extract_recent_completed_messages(history, limit) returns
\* the messages of the limit most recently created entries among those that
\* are completed and have a content that is not blank, all of them when they
\* are fewer than limit, oldest first, each with the role of
\* extract_completed_messages and its content; never more than limit.
C31_RecentCompleted ==
  recent.called
    => LET h == history.entries
           K == KeptAt(h)
           n == IF recent.limit < Cardinality(K) THEN recent.limit ELSE Cardinality(K) IN
       /\ Len(recent.out) <= recent.limit
       /\ Len(recent.out) = n
       /\ \E idx \in [1..n -> K] :
            /\ MostRecent(h, K, idx)
            /\ \A i \in 1..n :
                 recent.out[i] = [role |-> ClaimedRole(h[idx[i]].role),
                                  content |-> h[idx[i]].content]

====
